---- MODULE Spec2Model ----
(***************************************************************************)
(* Model of miniflux's feed parsers (reader/rss.Parse, reader/opml.Parse)  *)
(* and of the build-time bundle generator (generate.go).                   *)
(*                                                                         *)
(* A document is the sequence of XML tokens between the root start tag     *)
(* and the root end tag.  A token is a record [k, v]:                      *)
(*   open   a start tag of a container element titled v                    *)
(*          (an outline without xmlUrl, a channel)                         *)
(*   leaf   a self-closed element carrying the URL v                       *)
(*          (an outline with xmlUrl, an item); URL "a" comes with a        *)
(*          parseable date, URL "b" without one                            *)
(*   close  an end tag                                                     *)
(*   ent    an entity reference &v; in character data                      *)
(* An optional value (a Go pointer, error or slice that may be nil) is a   *)
(* sequence: <<>> is nil, <<x>> is the value x.                            *)
(***************************************************************************)
EXTENDS Integers, Sequences, FiniteSets, TLC

VARIABLES
    calls,          \* the Parse invocations in flight, one record per worker
    HTMLEntity,     \* xml.HTMLEntity: the package-level entity table
    CharsetReader,  \* encoding.CharsetReader: the package-level hook
    now,            \* the wall clock read by a Transform for an unknown date
    gen             \* the bundle generator's run (generate.go)

vars == <<calls, HTMLEntity, CharsetReader, now, gen>>

\* ------------------------------------------------------------------ bounds

\* Number of workers that may run Parse at the same time.
NCalls == 2
\* Longest document body (in tokens) of the exhaustive single-call runs.
MaxLen == 5
\* Last value of the wall clock.
MaxClock == 1
\* Longest source file list handed to a bundle generator.
MaxFiles == 2

Calls == 1..NCalls

Nil == <<>>
Some(x) == <<x>>

\* ------------------------------------------------------------- documents

Open(t) == [k |-> "open", v |-> t]
Leaf(u) == [k |-> "leaf", v |-> u]
Close == [k |-> "close", v |-> ""]
Ent(n) == [k |-> "ent", v |-> n]

Formats == {"rss", "opml"}

\* The alphabet of the exhaustive runs.
Tokens == {Open("Tech"), Open("Go"), Leaf("a"), Close, Ent("nbsp"), Ent("lol")}

SeqsUpTo(S, n) == UNION {[1..m -> S] : m \in 0..n}

AllDocs == SeqsUpTo(Tokens, MaxLen)

\* The documents of the concurrent runs: a folder with a dated feed, a
\* truncated document, a folder with an undated feed, a reference to a
\* custom (DTD-declared) entity after a first element, an HTML entity.
ConcDocs ==
    { <<Open("Tech"), Leaf("a"), Close>>,
      <<Open("Tech"), Leaf("b")>>,
      <<Open("Go"), Leaf("b"), Close>>,
      <<Open("Go"), Ent("lol")>>,
      <<Ent("nbsp")>> }

\* ------------------------------------------------------------ the decoder

\* xml.HTMLEntity as the program starts (two of its entries).
StdHTMLEntity == [nbsp |-> "U+00A0", copy |-> "U+00A9"]

\* new(rssFeed), new(opml): an empty raw tree. nodes is the arena of the
\* elements decoded so far, in document order, each with the index of its
\* parent (0: a child of the root); text is the character data.
EmptyTree == [nodes |-> <<>>, text |-> <<>>]

Node(t, u, p) == [title |-> t, url |-> u, parent |-> p]

IdleCall ==
    [pc |-> "idle", fmt |-> "rss", input |-> <<>>, rest |-> <<>>,
     stack |-> <<>>, tree |-> EmptyTree, derr |-> Nil,
     result |-> Nil, err |-> Nil, steps |-> 0, transformed |-> 0]

NewTreeShared(c) ==
    LET busy == {d \in Calls \ {c} : calls[d].pc \in {"decoding", "decoded"}}
    IN  IF busy = {} THEN EmptyTree
        ELSE calls[CHOOSE d \in busy : TRUE].tree

\* The raw tree call c decodes into: a fresh one of its own.
NewTree(c) == EmptyTree

\* Parse up to the call of Decode: the tree and the decoder are allocated.
ParseBegin(c, fmt, doc) ==
    [IdleCall EXCEPT !.pc = "decoding", !.fmt = fmt, !.input = doc,
                     !.rest = doc, !.tree = NewTree(c)]

SyntaxError(msg, call) ==
    [msg |-> msg, at |-> Len(call.input) - Len(call.rest)]

Fail(call, msg) ==
    [call EXCEPT !.pc = "decoded", !.derr = Some(SyntaxError(msg, call)),
                 !.steps = @ + 1]

Top(stack) == IF stack = <<>> THEN 0 ELSE stack[Len(stack)]

EntityStepDTD(call, table) ==
    LET n == Head(call.rest).v
    IN  IF n \in DOMAIN table
        THEN [call EXCEPT !.rest = Tail(@), !.steps = @ + 1,
                          !.tree.text = Append(@, table[n])]
        ELSE [call EXCEPT !.rest = <<Ent(n), Ent(n)>> \o Tail(@),
                          !.steps = @ + 1]

\* An entity reference: one lookup in the decoder's Entity map; the
\* replacement goes to the character data and is not scanned again; a name
\* the map does not hold is a syntax error (the decoder is strict).
EntityStep(call, table) ==
    LET n == Head(call.rest).v
    IN  IF n \in DOMAIN table
        THEN [call EXCEPT !.rest = Tail(@), !.steps = @ + 1,
                          !.tree.text = Append(@, table[n])]
        ELSE Fail(call, "invalid character entity")

\* decoder.Decode, one token at a time, filling the raw tree as it goes.
DecodeStep(call, table) ==
    IF call.rest = <<>>
    THEN IF call.stack = <<>>
         THEN [call EXCEPT !.pc = "decoded", !.steps = @ + 1]
         ELSE Fail(call, "unexpected EOF")
    ELSE LET tok == Head(call.rest)
             n == Len(call.tree.nodes) + 1
         IN  CASE tok.k = "open" ->
                    [call EXCEPT !.rest = Tail(@), !.steps = @ + 1,
                                 !.tree.nodes = Append(@, Node(tok.v, "", Top(call.stack))),
                                 !.stack = Append(@, n)]
               [] tok.k = "leaf" ->
                    [call EXCEPT !.rest = Tail(@), !.steps = @ + 1,
                                 !.tree.nodes = Append(@, Node("", tok.v, Top(call.stack)))]
               [] tok.k = "close" ->
                    IF call.stack = <<>>
                    THEN Fail(call, "unexpected end element")
                    ELSE [call EXCEPT !.rest = Tail(@), !.steps = @ + 1,
                                      !.stack = SubSeq(@, 1, Len(@) - 1)]
               [] OTHER -> EntityStep(call, table)

TableAfterDecodeLearn(call, table) ==
    IF call.rest # <<>> /\ Head(call.rest).k = "ent"
       /\ Head(call.rest).v \notin DOMAIN table
    THEN [n \in DOMAIN table \cup {Head(call.rest).v} |->
             IF n \in DOMAIN table THEN table[n] ELSE ""]
    ELSE table

\* The entity table after a step of Decode: decoder.Entity is the shared
\* map itself, and the decoder only reads it.
TableAfterDecode(call, table) == table

\* --------------------------------------------------------- the transforms

PathOfParentOnly(nodes, i) ==
    IF nodes[i].parent = 0 THEN <<>>
    ELSE <<nodes[nodes[i].parent].title>>

RECURSIVE PathOf(_, _)
\* The titles of the ancestors of node i, root first.
PathOf(nodes, i) ==
    IF nodes[i].parent = 0 THEN <<>>
    ELSE PathOf(nodes, nodes[i].parent) \o <<nodes[nodes[i].parent].title>>

RECURSIVE OpmlFrom(_, _)
OpmlFrom(nodes, i) ==
    IF i > Len(nodes) THEN <<>>
    ELSE IF nodes[i].url # ""
         THEN <<[url |-> nodes[i].url, path |-> PathOf(nodes, i)]>>
                  \o OpmlFrom(nodes, i + 1)
         ELSE OpmlFrom(nodes, i + 1)

\* opml.Transform: the outlines with an xmlUrl, in document order, each
\* with its category path.
OpmlTransform(tree) == OpmlFrom(tree.nodes, 1)

FeedURL == "feed-url"
KnownDate == "2024-10-02T15:00:00Z"

\* An entry's date: URL "a" carries a parseable date, others none, and
\* their date is the time of the fetch.
EntryDate(u, t) == IF u = "a" THEN [known |-> TRUE, at |-> KnownDate]
                   ELSE [known |-> FALSE, at |-> t]

RECURSIVE RssEntries(_, _, _)
RssEntries(nodes, i, t) ==
    IF i > Len(nodes) THEN <<>>
    ELSE IF nodes[i].url # "" /\ nodes[i].parent # 0
            /\ nodes[nodes[i].parent].parent = 0
         THEN <<[url |-> nodes[i].url, hash |-> <<"hash", nodes[i].url>>,
                 date |-> EntryDate(nodes[i].url, t)]>>
                  \o RssEntries(nodes, i + 1, t)
         ELSE RssEntries(nodes, i + 1, t)

\* rssFeed.Transform: the channel (a top-level container) gives the title,
\* defaulted to the feed URL; its items give the entries.
RssTransform(tree, t) ==
    LET chans == {i \in 1..Len(tree.nodes) :
                     tree.nodes[i].url = "" /\ tree.nodes[i].parent = 0}
        first == CHOOSE i \in chans : \A j \in chans : i <= j
    IN  [title |-> IF chans = {} THEN FeedURL ELSE tree.nodes[first].title,
         entries |-> RssEntries(tree.nodes, 1, t)]

Transform(fmt, tree, t) ==
    IF fmt = "rss" THEN RssTransform(tree, t) ELSE OpmlTransform(tree)

\* ------------------------------------------------------------- the return

\* errors.NewLocalizedError: the message key with the cause it wraps.
NewLocalizedError(key, cause) == [key |-> key, cause |-> cause]

ErrorKey(fmt) ==
    IF fmt = "rss" THEN "Unable to parse RSS feed: %q"
    ELSE "Unable to parse OPML file: %q"

WrapFresh(fmt, derr) ==
    NewLocalizedError(ErrorKey(fmt), [msg |-> "parse error", at |-> 0])

\* The error Parse returns for the decoder's error derr.
Wrap(fmt, derr) == NewLocalizedError(ErrorKey(fmt), derr)

ParseReturnSwallow(call, t) ==
    [call EXCEPT !.pc = "done", !.result = Some(Transform(call.fmt, call.tree, t)),
                 !.err = Nil, !.transformed = @ + 1]

ParseReturnEager(call, t) ==
    IF call.derr # Nil
    THEN [call EXCEPT !.pc = "done", !.result = Nil,
                      !.err = Some(Wrap(call.fmt, call.derr[1])),
                      !.transformed = @ + 1]
    ELSE [call EXCEPT !.pc = "done",
                      !.result = Some(Transform(call.fmt, call.tree, t)),
                      !.err = Nil, !.transformed = @ + 1]

\* Parse after Decode: the error check and the two returns.
ParseReturn(call, t) ==
    IF call.derr # Nil
    THEN [call EXCEPT !.pc = "done", !.result = Nil,
                      !.err = Some(Wrap(call.fmt, call.derr[1]))]
    ELSE [call EXCEPT !.pc = "done",
                      !.result = Some(Transform(call.fmt, call.tree, t)),
                      !.err = Nil, !.transformed = @ + 1]

\* ------------------------------------------------- the bundle generator
\* A file name is a sequence of characters, a file's content a sequence of
\* bytes (32: a space, 39: a quote).

\* The files on disk when the generator runs.
Disk ==
    ( <<"d", "/", "a", ".", "s">> :> <<97>> ) @@
    ( <<"d", "/", "a", ".", "t">> :> <<98, 32, 98>> ) @@
    ( <<"e", "/", "a", ".", "s">> :> <<99, 99>> ) @@
    ( <<"d", "/", "a", " ", "b", ".", "s">> :> <<100>> ) @@
    ( <<"d", "/", "a", "_", "b", ".", "s">> :> <<>> ) @@
    ( <<"d", "/", ".", "s">> :> <<101, 101, 101>> ) @@
    ( <<"d", ".", "x", "/", "b">> :> <<39, 32>> )

\* A name no file has.
Missing == <<"d", "/", "x", ".", "s">>

\* The names a source list is drawn from.
SrcNames == DOMAIN Disk \cup {Missing}

\* The names the source lists of a JS or CSS bundle are drawn from: a file
\* with a space, a file with an unterminated string, a missing file.
TextNames ==
    { <<"d", "/", "a", ".", "t">>, <<"d", ".", "x", "/", "b">>, Missing }

\* The names of the bundles of a JS or CSS run.
BundleNames == { <<"a", "p", "p">>, <<"s", "w">> }

Prefix == <<39>>
Suffix == <<41>>

\* readFile: the bytes of a file; nil stands for its panic.
readFile(filename) ==
    IF filename \in DOMAIN Disk THEN Some(Disk[filename]) ELSE Nil

\* checksum: the SHA-256 hex digest, taken as free of collisions.
checksum(data) == <<"sha256", data>>

RECURSIVE StripSlashes(_)
StripSlashes(p) ==
    IF p # <<>> /\ p[Len(p)] = "/" THEN StripSlashes(SubSeq(p, 1, Len(p) - 1))
    ELSE p

LastIndex(p, ch) ==
    LET at == {i \in 1..Len(p) : p[i] = ch}
    IN  IF at = {} THEN 0 ELSE CHOOSE i \in at : \A j \in at : j <= i

\* path.Base
Base(p) ==
    IF p = <<>> THEN <<".">>
    ELSE LET q == StripSlashes(p)
             r == SubSeq(q, LastIndex(q, "/") + 1, Len(q))
         IN  IF r = <<>> THEN <<"/">> ELSE r

RECURSIVE ExtFrom(_, _)
ExtFrom(p, i) ==
    IF i < 1 \/ p[i] = "/" THEN <<>>
    ELSE IF p[i] = "." THEN SubSeq(p, i, Len(p))
    ELSE ExtFrom(p, i - 1)

\* path.Ext
Ext(p) == ExtFrom(p, Len(p))

\* strings.TrimSuffix
TrimSuffix(s, suf) ==
    IF Len(suf) <= Len(s) /\ SubSeq(s, Len(s) - Len(suf) + 1, Len(s)) = suf
    THEN SubSeq(s, 1, Len(s) - Len(suf))
    ELSE s

\* strings.Replace(s, old, new, -1) for one-character strings
Replace(s, old, new) == [i \in 1..Len(s) |-> IF s[i] = old THEN new ELSE s[i]]

basename(filename) == Base(filename)

stripExtensionKeepSpaces(filename) == TrimSuffix(filename, Ext(filename))

stripExtension(filename) ==
    Replace(TrimSuffix(filename, Ext(filename)), " ", "_")

RECURSIVE concat(_)
\* concat: the files' bytes one after the other; nil when a read panics.
concat(files) ==
    IF files = <<>> THEN Some(<<>>)
    ELSE LET d == readFile(Head(files))
             r == concat(Tail(files))
         IN  IF d = Nil \/ r = Nil THEN Nil ELSE Some(d[1] \o r[1])

RECURSIVE MinifyFrom(_, _)
MinifyFrom(data, quoted) ==
    IF data = <<>> THEN (IF quoted THEN Nil ELSE Some(<<>>))
    ELSE LET b == Head(data)
             r == MinifyFrom(Tail(data), IF b = 39 THEN ~quoted ELSE quoted)
         IN  IF r = Nil THEN Nil
             ELSE IF b = 32 /\ ~quoted THEN r
             ELSE Some(<<b>> \o r[1])

\* m.String: the text without the spaces outside its string literals; nil
\* stands for the error of a string left open.
Minify(data) == MinifyFrom(data, FALSE)

\* The character of a 6-bit value in base64's alphabet.
B64Char(v) ==
    IF v < 26 THEN 65 + v
    ELSE IF v < 52 THEN 71 + v
    ELSE IF v < 62 THEN v - 4
    ELSE IF v = 62 THEN 43 ELSE 47

RECURSIVE EncodeToString(_)
\* base64.StdEncoding.EncodeToString
EncodeToString(data) ==
    IF data = <<>> THEN <<>>
    ELSE IF Len(data) = 1
    THEN <<B64Char(data[1] \div 4), B64Char((data[1] % 4) * 16), 61, 61>>
    ELSE IF Len(data) = 2
    THEN <<B64Char(data[1] \div 4),
           B64Char((data[1] % 4) * 16 + data[2] \div 16),
           B64Char((data[2] % 16) * 4), 61>>
    ELSE <<B64Char(data[1] \div 4),
           B64Char((data[1] % 4) * 16 + data[2] \div 16),
           B64Char((data[2] % 16) * 4 + data[3] \div 64),
           B64Char(data[3] % 64)>> \o EncodeToString(SubSeq(data, 4, Len(data)))

MapPut(m, k, v) == [x \in DOMAIN m \cup {k} |-> IF x = k THEN v ELSE m[x]]

\* NewBundle
NewBundle == [Files |-> <<>>, Checksums |-> <<>>]

PutFilesOnly(b, key, content, sum) ==
    [b EXCEPT !.Files = MapPut(@, key, content)]

\* bundle.Files[key] = content; bundle.Checksums[key] = sum
Put(b, key, content, sum) ==
    [Files |-> MapPut(b.Files, key, content),
     Checksums |-> MapPut(b.Checksums, key, sum)]

\* The text a JS bundle minifies: prefix, sources, suffix.
JSText(g, name) ==
    LET body == concat(g.bundleFiles[name])
    IN  IF body = Nil THEN Nil
        ELSE Some((IF name \in g.prefixes THEN Prefix ELSE <<>>) \o body[1]
                    \o (IF name \in g.suffixes THEN Suffix ELSE <<>>))

BinaryEntrySumOfEncoded(b, srcFile, data) ==
    Put(b, basename(srcFile), EncodeToString(data), checksum(EncodeToString(data)))

\* generateBinaryBundle's loop body after the read.
BinaryEntry(b, srcFile, data) ==
    Put(b, basename(srcFile), EncodeToString(data), checksum(data))

\* generateBundle's loop body after the read.
GenericEntry(b, srcFile, data) ==
    Put(b, stripExtension(basename(srcFile)), data, checksum(data))

\* The loop body of generateJSBundle and generateCSSBundle after the minifier.
TextEntry(b, name, minified) == Put(b, name, minified, checksum(minified))

Panic(g) == [g EXCEPT !.pc = "panic"]

\* One iteration of the generator's loop, on the head of todo.
LoopBody(g) ==
    LET item == Head(g.todo)
        rest == [g EXCEPT !.todo = Tail(@)]
    IN  IF g.kind \in {"js", "css"}
        THEN LET text == IF g.kind = "js" THEN JSText(g, item)
                         ELSE concat(g.bundleFiles[item])
                 min == IF text = Nil THEN Nil ELSE Minify(text[1])
             IN  IF min = Nil THEN Panic(g)
                 ELSE [rest EXCEPT !.bundle = TextEntry(@, item, min[1])]
        ELSE LET data == readFile(item)
             IN  IF data = Nil THEN Panic(g)
                 ELSE [rest EXCEPT !.bundle =
                          IF g.kind = "bin" THEN BinaryEntry(@, item, data[1])
                          ELSE GenericEntry(@, item, data[1])]

GenIdle ==
    [pc |-> "off", kind |-> "", srcFiles |-> <<>>, bundleFiles |-> <<>>,
     prefixes |-> {}, suffixes |-> {}, todo |-> <<>>,
     bundle |-> NewBundle, out |-> Nil]

SrcLists == SeqsUpTo(SrcNames, MaxFiles)
TextLists == SeqsUpTo(TextNames, MaxFiles)

\* The orders in which a range over a map with the keys S may visit them.
Orders(S) ==
    {o \in [1..Cardinality(S) -> S] : {o[i] : i \in 1..Cardinality(S)} = S}

ParserIdle == UNCHANGED <<calls, HTMLEntity, CharsetReader, now>>

\* generateBinaryBundle or generateBundle is called on a list of files.
StartList(kind, srcs) ==
    /\ gen.pc = "off"
    /\ gen' = [GenIdle EXCEPT !.pc = "loop", !.kind = kind,
                              !.srcFiles = srcs, !.todo = srcs]
    /\ ParserIdle

\* generateJSBundle or generateCSSBundle is called; the range over the map
\* visits its keys in the order o.
StartMap(kind, files, pre, suf, o) ==
    /\ gen.pc = "off"
    /\ gen' = [GenIdle EXCEPT !.pc = "loop", !.kind = kind,
                              !.bundleFiles = files, !.prefixes = pre,
                              !.suffixes = suf, !.todo = o]
    /\ ParserIdle

Iterate ==
    /\ gen.pc = "loop" /\ gen.todo # <<>>
    /\ gen' = LoopBody(gen)
    /\ ParserIdle

\* bundle.Write: the template is executed on the bundle.
Write ==
    /\ gen.pc = "loop" /\ gen.todo = <<>>
    /\ gen' = [gen EXCEPT !.pc = "written", !.out = Some(gen.bundle)]
    /\ ParserIdle

\* The generator function returns, or the process ends on a panic.
Exit ==
    /\ gen.pc \in {"written", "panic"}
    /\ gen' = GenIdle
    /\ ParserIdle

NextBundle ==
    \/ /\ gen.pc = "off"
       /\ \E kind \in {"bin", "generic"}, srcs \in SrcLists : StartList(kind, srcs)
    \/ /\ gen.pc = "off"
       /\ \E S \in SUBSET BundleNames :
            \E files \in [S -> TextLists], pre \in SUBSET BundleNames,
               suf \in SUBSET {<<"a", "p", "p">>}, o \in Orders(S) :
                 StartMap("js", files, pre, suf, o)
    \/ /\ gen.pc = "off"
       /\ \E S \in SUBSET BundleNames :
            \E files \in [S -> TextLists], o \in Orders(S) :
                 StartMap("css", files, {}, {}, o)
    \/ Iterate
    \/ Write
    \/ Exit

\* ------------------------------------------------------------ the actions

\* A worker calls Parse on a document.
Begin(c, fmt, doc) ==
    /\ calls[c].pc = "idle"
    /\ calls' = [calls EXCEPT ![c] = ParseBegin(c, fmt, doc)]
    /\ UNCHANGED <<HTMLEntity, CharsetReader, now, gen>>

\* The decoder of call c reads its next token.
Decode(c) ==
    /\ calls[c].pc = "decoding"
    /\ calls' = [calls EXCEPT ![c] = DecodeStep(calls[c], HTMLEntity)]
    /\ HTMLEntity' = TableAfterDecode(calls[c], HTMLEntity)
    /\ UNCHANGED <<CharsetReader, now, gen>>

\* Call c returns.
Return(c) ==
    /\ calls[c].pc = "decoded"
    /\ calls' = [calls EXCEPT ![c] = ParseReturn(calls[c], now)]
    /\ UNCHANGED <<HTMLEntity, CharsetReader, now, gen>>

\* The caller of call c is done with what it returned.
Release(c) ==
    /\ calls[c].pc = "done"
    /\ calls' = [calls EXCEPT ![c] = IdleCall]
    /\ UNCHANGED <<HTMLEntity, CharsetReader, now, gen>>

\* Time passes.
Tick ==
    /\ now < MaxClock
    /\ now' = now + 1
    /\ UNCHANGED <<calls, HTMLEntity, CharsetReader, gen>>

ParserInit ==
    /\ calls = [c \in Calls |-> IdleCall]
    /\ HTMLEntity = StdHTMLEntity
    /\ CharsetReader = "encoding.CharsetReader"
    /\ now = 0

Init ==
    /\ ParserInit
    /\ gen = GenIdle

\* Workers parsing documents side by side.
Next ==
    \/ \E c \in Calls :
          /\ calls[c].pc = "idle"
          /\ \E fmt \in Formats, doc \in ConcDocs : Begin(c, fmt, doc)
    \/ \E c \in Calls : Decode(c)
    \/ \E c \in Calls : Return(c)
    \/ \E c \in Calls : Release(c)
    \/ Tick

Spec == Init /\ [][Next]_vars

\* One worker parsing every document of the alphabet.
NextOne ==
    \/ /\ calls[1].pc = "idle"
       /\ \E fmt \in Formats, doc \in AllDocs : Begin(1, fmt, doc)
    \/ Decode(1)
    \/ Return(1)
    \/ Release(1)

SpecOne == Init /\ [][NextOne]_vars

\* The generator run on every input of the bounds.
SpecBundle == Init /\ [][NextBundle]_vars

\* ------------------------------------------------------ parser properties

Done(c) == calls[c].pc = "done"

Times == 0..MaxClock

\* C1: a call that has returned returns an error exactly when its Decode
\* failed; after a failed Decode the result is nil and the error is not;
\* after a successful one the error is nil and the result is the Transform
\* of the decoded tree.
C1_ErrorIffDecodeFailed ==
    \A c \in Calls : Done(c) =>
        LET k == calls[c]
        IN  /\ (k.err # Nil) <=> (k.derr # Nil)
            /\ ~(k.err # Nil /\ k.result # Nil)
            /\ k.derr # Nil => k.result = Nil /\ Len(k.err) = 1
            /\ k.derr = Nil =>
                  \E t \in Times : k.result = Some(Transform(k.fmt, k.tree, t))

C1_Witness ==
    \E c \in Calls :
        /\ Done(c) /\ calls[c].fmt = "rss"
        /\ calls[c].derr # Nil /\ calls[c].err # Nil
        /\ calls[c].derr[1].msg = "unexpected end element"

\* C2: the error a call returns carries the message key of its format and,
\* as its cause, the decoder's error itself.
C2_ErrorWrapsCause ==
    \A c \in Calls : (Done(c) /\ calls[c].derr # Nil) =>
        /\ calls[c].err # Nil
        /\ calls[c].err[1].key =
              (IF calls[c].fmt = "rss" THEN "Unable to parse RSS feed: %q"
               ELSE "Unable to parse OPML file: %q")
        /\ calls[c].err[1].cause = calls[c].derr[1]

C2_Witness ==
    \E c \in Calls :
        /\ Done(c) /\ calls[c].fmt = "opml" /\ calls[c].err # Nil
        /\ calls[c].err[1].cause.msg = "unexpected EOF"
        /\ calls[c].err[1].cause.at > 0

\* C3: Transform runs at most once per call and only in the return that
\* follows a Decode without error; the tree of a failed Decode, filled or
\* not, is never transformed and nothing is returned from it.
C3_TransformOnlyAfterDecode ==
    \A c \in Calls :
        /\ calls[c].transformed <= 1
        /\ calls[c].transformed = 1 => Done(c) /\ calls[c].derr = Nil
        /\ (calls[c].derr # Nil) =>
              calls[c].transformed = 0 /\ calls[c].result = Nil

C3_Witness ==
    \E c \in Calls :
        /\ Done(c) /\ calls[c].derr # Nil
        /\ Len(calls[c].tree.nodes) >= 2
        /\ \E i \in 1..Len(calls[c].tree.nodes) : calls[c].tree.nodes[i].url # ""

Fresh(fmt, doc) ==
    [IdleCall EXCEPT !.pc = "decoding", !.fmt = fmt, !.input = doc, !.rest = doc]

RECURSIVE DecodeAll(_)
DecodeAll(call) ==
    IF call.pc = "decoding" THEN DecodeAll(DecodeStep(call, StdHTMLEntity))
    ELSE call

\* A call of Parse with nothing else running.
RunAlone(fmt, doc) == ParseReturn(DecodeAll(Fresh(fmt, doc)), 0)

MaskEntry(e) ==
    [e EXCEPT !.date = IF e.date.known THEN e.date
                       ELSE [known |-> FALSE, at |-> 0]]

\* What a call returned, with the fetch time of an unknown date left out.
Outcome(call) ==
    [err |-> call.err,
     result |->
        IF call.result = Nil \/ call.fmt = "opml" THEN call.result
        ELSE Some([call.result[1] EXCEPT
                      !.entries = [i \in 1..Len(@) |-> MaskEntry(@[i])]])]

AloneInv ==
    \A c \in Calls : Done(c) =>
        Outcome(calls[c]) = Outcome(RunAlone(calls[c].fmt, calls[c].input))

FrameAct ==
    /\ HTMLEntity' = HTMLEntity
    /\ CharsetReader' = CharsetReader
    /\ Cardinality({c \in Calls : calls'[c] # calls[c]}) <= 1

\* C4: whatever the interleaving, a call returns what it returns when run
\* alone, and a step of a call changes that call's own record only: never
\* the entity table, the charset hook or another call's record.
C4_CallsIndependent == []AloneInv /\ [][FrameAct]_vars

C4_Witness ==
    \E c, d \in Calls :
        /\ c # d /\ Done(c) /\ calls[c].result # Nil
        /\ calls[c].tree.nodes # <<>>
        /\ calls[d].pc = "decoding" /\ calls[d].tree.nodes # <<>>
        /\ calls[d].input # calls[c].input

\* C5: two calls given the same document in the same format return the
\* same outcome, whatever ran before them: the same key and cause, or equal
\* results up to the fetch time of an unknown date.
C5_Deterministic ==
    \A c, d \in Calls :
        (Done(c) /\ Done(d) /\ calls[c].fmt = calls[d].fmt
            /\ calls[c].input = calls[d].input)
        => Outcome(calls[c]) = Outcome(calls[d])

C5_Witness ==
    \E c, d \in Calls :
        /\ Done(c) /\ Done(d) /\ calls[c].fmt = "rss" /\ calls[d].fmt = "rss"
        /\ calls[c].input = calls[d].input
        /\ calls[c].result # Nil
        /\ calls[c].result # calls[d].result

Custom(doc) ==
    {i \in 1..Len(doc) : doc[i].k = "ent" /\ doc[i].v \notin DOMAIN StdHTMLEntity}

\* C6: Decode's work is bounded by the document: each step consumes a token
\* and none is put back, each entity reference adds at most one replacement
\* to the text, and a document that refers to a custom entity ends in a
\* returned decode error.
C6_EntityWorkBounded ==
    \A c \in Calls :
        LET k == calls[c]
        IN  /\ k.steps + Len(k.rest) <= Len(k.input) + 1
            /\ Len(k.tree.text) <= Len(k.input) - Len(k.rest)
            /\ (k.pc \in {"decoded", "done"} /\ Custom(k.input) # {})
                  => k.derr # Nil
            /\ (Done(c) /\ Custom(k.input) # {}) => k.err # Nil /\ k.result = Nil

C6_Witness ==
    \E c \in Calls :
        /\ Done(c) /\ calls[c].err # Nil
        /\ calls[c].err[1].cause.msg = "invalid character entity"
        /\ Cardinality(Custom(calls[c].input)) >= 3

RECURSIVE Flatten(_, _)
\* The feeds of a well-formed document, each with the titles of the
\* containers open around it, read off the token sequence.
Flatten(doc, titles) ==
    IF doc = <<>> THEN <<>>
    ELSE LET tok == Head(doc)
         IN  CASE tok.k = "open" -> Flatten(Tail(doc), Append(titles, tok.v))
               [] tok.k = "leaf" ->
                    <<[url |-> tok.v, path |-> titles]>> \o Flatten(Tail(doc), titles)
               [] tok.k = "close" ->
                    Flatten(Tail(doc), SubSeq(titles, 1, Len(titles) - 1))
               [] OTHER -> Flatten(Tail(doc), titles)

C8_SameKeys ==
    /\ DOMAIN gen.bundle.Files = DOMAIN gen.bundle.Checksums
    /\ gen.out # Nil => DOMAIN gen.out[1].Files = DOMAIN gen.out[1].Checksums

C8_Witness ==
    /\ gen.pc = "written" /\ gen.kind = "js"
    /\ Cardinality(DOMAIN gen.out[1].Files) = 2
    /\ \E k \in DOMAIN gen.out[1].Files : gen.out[1].Files[k] # <<>>

B64Val(ch) ==
    IF ch >= 97 THEN ch - 71
    ELSE IF ch >= 65 THEN ch - 65
    ELSE IF ch >= 48 THEN ch + 4
    ELSE IF ch = 43 THEN 62 ELSE 63

RECURSIVE B64Decode(_)
\* The bytes a padded base64 string stands for.
B64Decode(s) ==
    IF Len(s) < 4 THEN <<>>
    ELSE LET b1 == B64Val(s[1]) * 4 + B64Val(s[2]) \div 16
         IN  IF s[3] = 61 THEN <<b1>>
             ELSE LET b2 == (B64Val(s[2]) % 16) * 16 + B64Val(s[3]) \div 4
                  IN  IF s[4] = 61 THEN <<b1, b2>>
                      ELSE <<b1, b2, (B64Val(s[3]) % 4) * 64 + B64Val(s[4])>>
                              \o B64Decode(SubSeq(s, 5, Len(s)))

TextSums ==
    gen.kind \in {"js", "css", "generic"} =>
        \A k \in DOMAIN gen.bundle.Files :
            gen.bundle.Checksums[k] = checksum(gen.bundle.Files[k])

BinarySums ==
    gen.kind = "bin" =>
        \A k \in DOMAIN gen.bundle.Files :
            gen.bundle.Checksums[k] = checksum(B64Decode(gen.bundle.Files[k]))

\* C9 as claimed: a checksum is the digest of the stored string in a JS, CSS
\* or generic bundle; in a binary bundle it is the digest of the decoded
\* bytes and not the digest of the stored base64 string.
C9_Original ==
    /\ TextSums
    /\ BinarySums
    /\ gen.kind = "bin" =>
          \A k \in DOMAIN gen.bundle.Files :
              gen.bundle.Checksums[k] # checksum(gen.bundle.Files[k])

\* C9 as amended: as claimed, but in a binary bundle the checksum differs
\* from the digest of the stored base64 string for a file that is not
\* empty (an empty file is stored as the empty string, its own encoding).
C9_ChecksumOfContent ==
    /\ TextSums
    /\ BinarySums
    /\ gen.kind = "bin" =>
          \A k \in DOMAIN gen.bundle.Files :
              (gen.bundle.Checksums[k] = checksum(gen.bundle.Files[k]))
                  <=> (gen.bundle.Files[k] = <<>>)

C9_Witness ==
    /\ gen.pc = "written" /\ gen.kind = "bin"
    /\ \E k, l \in DOMAIN gen.bundle.Files :
          /\ Len(gen.bundle.Files[k]) = 4 /\ gen.bundle.Files[k][4] # 61
          /\ gen.bundle.Files[l] = <<>>

\* The key the claim describes: the last path element, cut before its last
\* dot, spaces turned into underscores.
ExpectedKey(f) ==
    LET slashes == {i \in 1..Len(f) : f[i] = "/"}
        from == IF slashes = {} THEN 1
                ELSE 1 + CHOOSE i \in slashes : \A j \in slashes : j <= i
        b == SubSeq(f, from, Len(f))
        dots == {i \in 1..Len(b) : b[i] = "."}
        stem == IF dots = {} THEN b
                ELSE SubSeq(b, 1, (CHOOSE i \in dots : \A j \in dots : j <= i) - 1)
    IN  [i \in 1..Len(stem) |-> IF stem[i] = " " THEN "_" ELSE stem[i]]

\* C10: a generic bundle that is written has one entry per distinct key of
\* its source list, so as many entries as files exactly when the keys are
\* pairwise distinct, and the entry and checksum of a key are those of the
\* last file in the list with that key.
C10_GenericKeys ==
    (gen.pc = "written" /\ gen.kind = "generic") =>
        LET srcs == gen.srcFiles
            n == Len(srcs)
            K(i) == ExpectedKey(srcs[i])
            Last(i) == CHOOSE j \in i..n :
                          K(j) = K(i) /\ \A l \in (j + 1)..n : K(l) # K(i)
        IN  /\ DOMAIN gen.out[1].Files = {K(i) : i \in 1..n}
            /\ DOMAIN gen.out[1].Checksums = {K(i) : i \in 1..n}
            /\ (Cardinality(DOMAIN gen.out[1].Files) = n)
                  <=> (\A i, j \in 1..n : i # j => K(i) # K(j))
            /\ \A i \in 1..n :
                  /\ gen.out[1].Files[K(i)] = Disk[srcs[Last(i)]]
                  /\ gen.out[1].Checksums[K(i)] = checksum(Disk[srcs[Last(i)]])

C10_Witness ==
    /\ gen.pc = "written" /\ gen.kind = "generic"
    /\ Len(gen.srcFiles) = 2 /\ Cardinality(DOMAIN gen.out[1].Files) = 1
    /\ \E i \in 1..Len(gen.srcFiles) : " " \in {gen.srcFiles[i][j] : j \in 1..Len(gen.srcFiles[i])}
    /\ Disk[gen.srcFiles[1]] # Disk[gen.srcFiles[2]]
    /\ \A k \in DOMAIN gen.out[1].Files : gen.out[1].Files[k] = Disk[gen.srcFiles[2]]

====
